---------------------------- MODULE Spec2Model ----------------------------
(***************************************************************************)
(* A model of syncserver/__init__.py: the settings defaulter (includeme),  *)
(* the NewRequest subscriber reconcile_wsgi_environ_with_public_url, and   *)
(* the application factory (get_configurator / main).                      *)
(*                                                                         *)
(* Text is modelled as a sequence of atoms.  An atom is either one of the  *)
(* delimiter characters ":", "/", "?" or a run of characters that none of  *)
(* the string operations used by the code ever splits ("http", "a", "80"). *)
(* A settings key is the sequence of its dot-separated segments.           *)
(***************************************************************************)
EXTENDS Naturals, Sequences, FiniteSets

VARIABLES
    settings,       \* config.registry.settings (the dict mutated in place)
    settings0,      \* the settings handed in by the caller (history)
    prev,           \* the settings before the latest includeme run (history)
    runs,           \* number of includeme runs so far
    umask,          \* the process umask
    root_handlers,  \* whether the root logger has a handler
    app,            \* "init", "failed" (includeme raised) or "serving"
    routes,         \* what the configurator registered (routes, includes, subscribers)
    requests,       \* per request slot: position in the request lifecycle and fields
    log             \* records emitted on the "syncserver" logger

vars == <<settings, settings0, prev, runs, umask, root_handlers, app, routes,
          requests, log>>

---------------------------------------------------------------------------
(* Bounds *)

\* How many optional keys the caller supplies besides syncserver.public_url.
MaxSupplied == 2
\* How many distinct outcomes os.urandom can have.
NumRandom == 2
\* How many times includeme is applied to the same settings.
MaxRuns == 2

---------------------------------------------------------------------------
(* Strings *)

\* str.rstrip(c)
RECURSIVE rstrip(_, _)
rstrip(s, c) ==
    IF s = <<>> THEN s
    ELSE IF s[Len(s)] = c THEN rstrip(SubSeq(s, 1, Len(s) - 1), c)
    ELSE s

\* str.find(c), 1-based; 0 when c does not occur
RECURSIVE FindFrom(_, _, _)
FindFrom(s, cs, i) ==
    IF i > Len(s) THEN 0
    ELSE IF s[i] \in cs THEN i
    ELSE FindFrom(s, cs, i + 1)

Find(s, c) == FindFrom(s, {c}, 1)

\* s[i:] and s[:i] with Python's 0-based slice bounds (a bound past the end
\* is the end)
From(s, i) == SubSeq(s, i + 1, Len(s))
UpTo(s, i) == SubSeq(s, 1, IF i < Len(s) THEN i ELSE Len(s))

\* atoms made of decimal digits only
DigitAtoms == {"80", "443", "8000"}
\* atoms that are delimiter characters, not part of urlparse.scheme_chars
Delimiters == {":", "/", "?"}


---------------------------------------------------------------------------
(* urlparse.urlparse / urlparse.urlunparse (Python 2.7), for text without  *)
(* ";" and "#": params and fragment are always empty                       *)

\* _splitnetloc(url, 2): <<netloc, rest>>
splitnetloc(url) ==
    LET d     == FindFrom(url, {"/", "?"}, 3)
        delim == IF d = 0 THEN Len(url) ELSE d - 1
    IN  <<SubSeq(url, 3, delim), From(url, delim)>>

\* the part of urlsplit after the scheme has been taken off
SplitRest(scheme, url) ==
    LET hasNetloc == UpTo(url, 2) = <<"/", "/">>
        nl        == IF hasNetloc THEN splitnetloc(url)[1] ELSE <<>>
        u1        == IF hasNetloc THEN splitnetloc(url)[2] ELSE url
        q         == Find(u1, "?")
    IN  [scheme |-> scheme,
         netloc |-> nl,
         path   |-> IF q = 0 THEN u1 ELSE UpTo(u1, q - 1),
         params |-> <<>>,
         query  |-> IF q = 0 THEN <<>> ELSE From(u1, q),
         fragment |-> <<>>]

urlparse(url) ==
    LET c    == Find(url, ":")
        head == UpTo(url, c - 1)
        rest == From(url, c)
    IN  IF c > 1 /\ head = <<"http">> THEN SplitRest(head, rest)
        ELSE IF /\ c > 1
                /\ \A j \in 1..Len(head) : head[j] \notin Delimiters
                /\ (rest = <<>> \/ \E j \in 1..Len(rest) : rest[j] \notin DigitAtoms)
             THEN SplitRest(head, rest)
        ELSE SplitRest(<<>>, url)

\* urlparse.uses_netloc, as far as the schemes of the model go
UsesNetloc == {<<"ftp">>, <<"http">>, <<"https">>, <<"file">>}

urlunparse(p) ==
    LET u0 == p.path
        u1 == IF p.netloc # <<>> \/
                 (p.scheme # <<>> /\ p.scheme \in UsesNetloc /\ UpTo(u0, 2) # <<"/", "/">>)
              THEN <<"/", "/">> \o p.netloc \o
                   (IF u0 # <<>> /\ u0[1] # "/" THEN <<"/">> \o u0 ELSE u0)
              ELSE u0
        u2 == IF p.scheme # <<>> THEN p.scheme \o <<":">> \o u1 ELSE u1
    IN  IF p.query # <<>> THEN u2 \o <<"?">> \o p.query ELSE u2

---------------------------------------------------------------------------
(* Settings values and keys *)

\* A dict is a function on Keys; a key that is not in the dict maps to None.
\* (Deployment settings never hold an explicit None, so settings.get(k) is
\* None exactly when k is not in settings.)
None    == [kind |-> "none", str |-> <<>>]
Str(s)  == [kind |-> "str",  str |-> s]
Bool(b) == [kind |-> "bool", str |-> IF b THEN <<"True">> ELSE <<"False">>]
List(v) == [kind |-> "list", str |-> v.str]

PUBLIC_URL        == <<"syncserver", "public_url">>
SECRET            == <<"syncserver", "secret">>
SQLURI            == <<"syncserver", "sqluri">>
ALLOW_NEW_USERS   == <<"syncserver", "allow_new_users">>
FORCE_WSGI        == <<"syncserver", "force_wsgi_environ">>
CONFIG            == <<"config">>
TS_BACKEND        == <<"tokenserver", "backend">>
TS_SQLURI         == <<"tokenserver", "sqluri">>
TS_NODE_URL       == <<"tokenserver", "node_url">>
ENDPOINTS         == <<"endpoints", "sync-1", "5">>
TS_GEVENT         == <<"tokenserver", "monkey_patch_gevent">>
TS_APPLICATIONS   == <<"tokenserver", "applications">>
TS_SEC_BACKEND    == <<"tokenserver", "secrets", "backend">>
TS_SEC_SECRETS    == <<"tokenserver", "secrets", "secrets">>
TS_SEC_FILENAME   == <<"tokenserver", "secrets", "filename">>
TS_ALLOW_NEW      == <<"tokenserver", "allow_new_users">>
HAWK_SEC_BACKEND  == <<"hawkauth", "secrets", "backend">>
HAWK_SEC_SECRETS  == <<"hawkauth", "secrets", "secrets">>
HAWK_SEC_FILENAME == <<"hawkauth", "secrets", "filename">>
ST_BACKEND        == <<"storage", "backend">>
ST_SQLURI         == <<"storage", "sqluri">>
ST_CREATE_TABLES  == <<"storage", "create_tables">>
ST_BATCH          == <<"storage", "batch_upload_enabled">>
BID_BACKEND       == <<"browserid", "backend">>
BID_AUDIENCES     == <<"browserid", "audiences">>
LOGGERS           == <<"loggers">>
FXA_METRICS_KEY   == <<"fxa", "metrics_uid_secret_key">>

\* The keys the code names, and one more secrets option a deployment may set
\* (mozsvc.secrets.Secrets takes "filename"), with its hawkauth counterpart.
Keys ==
    {PUBLIC_URL, SECRET, SQLURI, ALLOW_NEW_USERS, FORCE_WSGI, CONFIG,
     TS_BACKEND, TS_SQLURI, TS_NODE_URL, ENDPOINTS, TS_GEVENT, TS_APPLICATIONS,
     TS_SEC_BACKEND, TS_SEC_SECRETS, TS_SEC_FILENAME, TS_ALLOW_NEW,
     HAWK_SEC_BACKEND, HAWK_SEC_SECRETS, HAWK_SEC_FILENAME,
     ST_BACKEND, ST_SQLURI, ST_CREATE_TABLES, ST_BATCH,
     BID_BACKEND, BID_AUDIENCES, LOGGERS, FXA_METRICS_KEY}

Has(s, k) == s[k] # None
Get(s, k) == s[k]
Set(s, k, v) == [s EXCEPT ![k] = v]

\* os.urandom(n).encode("hex"): one of NumRandom outcomes per length
HexAtoms == <<"0a", "1b", "2c", "3d", "4e", "5f">>
RandomHex(n) == {<<n, HexAtoms[i]>> : i \in 1..NumRandom}
URandom32 == RandomHex("hex32:")
URandom16 == RandomHex("hex16:")


---------------------------------------------------------------------------
(* includeme: the settings defaulter *)

\* "sqlite:///" + os.path.join(rootdir, "syncserver.db")
DefaultSqluri ==
    <<"sqlite", ":", "/", "/", "/">> \o <<"/", "rootdir">> \o <<"/", "syncserver.db">>

\* Faulty variant of MissingPublicUrl: the check for public_url is left out
NeverMissing(s) == FALSE

\* line 48: public_url is None
MissingPublicUrl(s) == Get(s, PUBLIC_URL) = None

\* lines 50-51
NormalizePublicUrl(s) ==
    Set(s, PUBLIC_URL, Str(rstrip(Get(s, PUBLIC_URL).str, "/")))

\* lines 53-55
SecretOf(s, rnd32) ==
    IF Get(s, SECRET) = None THEN Str(rnd32) ELSE Get(s, SECRET)

\* lines 56-59
SqluriOf(s) ==
    IF Get(s, SQLURI) = None THEN Str(DefaultSqluri) ELSE Get(s, SQLURI)

\* line 62
PopConfig(s) == Set(s, CONFIG, None)

\* lines 63-69
DefaultTokenserver(s, sqluri, public_url) ==
    IF ~Has(s, TS_BACKEND)
    THEN [s EXCEPT
            ![TS_BACKEND]  = Str(<<"syncserver.staticnode.StaticNodeAssignment">>),
            ![TS_SQLURI]   = sqluri,
            ![TS_NODE_URL] = public_url,
            ![ENDPOINTS]   = Str(<<"{node}", "/", "storage", "/", "1.5", "/", "{uid}">>)]
    ELSE s

\* lines 70-72
DefaultGevent(s) ==
    IF ~Has(s, TS_GEVENT) THEN Set(s, TS_GEVENT, Bool(FALSE)) ELSE s

\* lines 73-75
DefaultApplications(s) ==
    IF ~Has(s, TS_APPLICATIONS) THEN Set(s, TS_APPLICATIONS, Str(<<"sync-1.5">>)) ELSE s

\* lines 76-79
DefaultSecrets(s, secret) ==
    IF ~Has(s, TS_SEC_BACKEND)
    THEN [s EXCEPT
            ![TS_SEC_BACKEND] = Str(<<"mozsvc.secrets.FixedSecrets">>),
            ![TS_SEC_SECRETS] = List(secret)]
    ELSE s

\* lines 80-83
DefaultAllowNewUsers(s) ==
    IF ~Has(s, TS_ALLOW_NEW) /\ Get(s, ALLOW_NEW_USERS) # None
    THEN Set(s, TS_ALLOW_NEW, Get(s, ALLOW_NEW_USERS))
    ELSE s

\* key.startswith("tokenserver.secrets.")
IsTokenserverSecret(key) ==
    Len(key) >= 3 /\ key[1] = "tokenserver" /\ key[2] = "secrets"

\* "hawkauth" + key[len("tokenserver"):]
HawkKey(key) == <<"hawkauth">> \o Tail(key)

\* Faulty variant of MirrorSecrets: settings.setdefault(newkey, ...), which
\* keeps a hawkauth key that is already there
MirrorMissingSecrets(s) ==
    IF ~Has(s, HAWK_SEC_BACKEND)
    THEN [k \in Keys |->
            IF /\ ~Has(s, k)
               /\ \E key \in Keys : Has(s, key) /\ IsTokenserverSecret(key) /\ HawkKey(key) = k
            THEN s[<<"tokenserver">> \o Tail(k)]
            ELSE s[k]]
    ELSE s

\* lines 84-89: the loop runs over the list settings.keys() returns (Python 2:
\* a copy), so the keys it adds are not visited; none of them has the prefix.
MirrorSecrets(s) ==
    IF ~Has(s, HAWK_SEC_BACKEND)
    THEN [k \in Keys |->
            IF \E key \in Keys : Has(s, key) /\ IsTokenserverSecret(key) /\ HawkKey(key) = k
            THEN s[<<"tokenserver">> \o Tail(k)]
            ELSE s[k]]
    ELSE s

\* Faulty variant of DefaultStorage: the test for storage.backend is left out
OverwriteStorage(s, sqluri) ==
    [s EXCEPT
        ![ST_BACKEND]       = Str(<<"syncstorage.storage.sql.SQLStorage">>),
        ![ST_SQLURI]        = sqluri,
        ![ST_CREATE_TABLES] = Bool(TRUE)]

\* lines 90-94
DefaultStorage(s, sqluri) ==
    IF ~Has(s, ST_BACKEND)
    THEN [s EXCEPT
            ![ST_BACKEND]       = Str(<<"syncstorage.storage.sql.SQLStorage">>),
            ![ST_SQLURI]        = sqluri,
            ![ST_CREATE_TABLES] = Bool(TRUE)]
    ELSE s

\* lines 95-97
DefaultBatchUpload(s) ==
    IF ~Has(s, ST_BATCH) THEN Set(s, ST_BATCH, Bool(TRUE)) ELSE s

\* line 100
Audience(public_url) ==
    urlunparse([urlparse(public_url.str) EXCEPT !.path = <<>>])

\* lines 98-102
DefaultBrowserid(s, public_url) ==
    IF ~Has(s, BID_BACKEND)
    THEN [s EXCEPT
            ![BID_BACKEND]   = Str(<<"tokenserver.verifiers.RemoteVerifier">>),
            ![BID_AUDIENCES] = Str(Audience(public_url))]
    ELSE s

\* lines 103-107: the only effect is on the root logger
BasicConfig(s, handlers) == IF ~Has(s, LOGGERS) THEN TRUE ELSE handlers

\* Faulty variant of DefaultMetricsKey: a new key on every run
RegenerateMetricsKey(s, rnd16) == Set(s, FXA_METRICS_KEY, Str(rnd16))

\* lines 108-112
DefaultMetricsKey(s, rnd16) ==
    IF ~Has(s, FXA_METRICS_KEY) THEN Set(s, FXA_METRICS_KEY, Str(rnd16)) ELSE s

\* lines 46-112 in order, for settings that hold public_url
Includeme(s, rnd32, rnd16) ==
    LET s1         == NormalizePublicUrl(s)
        public_url == Get(s1, PUBLIC_URL)
        secret     == SecretOf(s1, rnd32)
        sqluri     == SqluriOf(s1)
        s2         == PopConfig(s1)
        s3         == DefaultTokenserver(s2, sqluri, public_url)
        s4         == DefaultGevent(s3)
        s5         == DefaultApplications(s4)
        s6         == DefaultSecrets(s5, secret)
        s7         == DefaultAllowNewUsers(s6)
        s8         == MirrorSecrets(s7)
        s9         == DefaultStorage(s8, sqluri)
        s10        == DefaultBatchUpload(s9)
        s11        == DefaultBrowserid(s10, public_url)
    IN  DefaultMetricsKey(s11, rnd16)

\* lines 115-124: what the configurator holds after the scan, the two
\* includes and the "it works!" route
Registrations ==
    {[kind |-> "subscriber", name |-> "reconcile_wsgi_environ_with_public_url",
      prefix |-> <<>>],
     [kind |-> "include", name |-> "syncstorage", prefix |-> <<"/", "storage">>],
     [kind |-> "include", name |-> "tokenserver", prefix |-> <<"/", "token">>],
     [kind |-> "route", name |-> "itworks", prefix |-> <<"/">>]}


---------------------------------------------------------------------------
(* Requests *)

Requests == {"r1", "r2"}

Schemes     == {<<"http">>, <<"https">>}
Hosts       == {<<"a">>, <<"b">>, <<"a", ":", "80">>}
ScriptNames == {<<>>, <<"/", "p">>, <<"/", "q">>}
PathInfos   == {<<"/">>, <<"/", "storage", "/", "1.5">>}

Idle ==
    [pc |-> "idle", scheme |-> <<>>, host |-> <<>>, script_name |-> <<>>,
     path_info |-> <<>>, environ |-> <<>>, status |-> 0, body |-> <<>>]

\* A request as the router receives it; environ keeps the scheme, host and
\* script_name it arrived with.
NewRequestOf(scheme, host, script_name, path_info) ==
    [pc |-> "adopt", scheme |-> scheme, host |-> host, script_name |-> script_name,
     path_info |-> path_info, environ |-> <<scheme, host, script_name>>,
     status |-> 0, body |-> <<>>]

\* request.host_url (WebOb): the port is left out when it is the scheme's default
HostUrl(scheme, host) ==
    LET c     == Find(host, ":")
        name  == IF c > 0 THEN UpTo(host, c - 1) ELSE host
        port0 == IF c > 0 THEN From(host, c) ELSE <<>>
        port  == IF \/ scheme = <<"https">> /\ port0 = <<"443">>
                    \/ scheme = <<"http">> /\ port0 = <<"80">>
                 THEN <<>> ELSE port0
    IN  scheme \o <<":", "/", "/">> \o name \o
        (IF port # <<>> THEN <<":">> \o port ELSE <<>>)

\* request.application_url (WebOb): host_url + script_name
ApplicationUrl(scheme, host, script_name) == HostUrl(scheme, host) \o script_name

\* Python truth value of a setting
Truthy(v) ==
    CASE v.kind = "none" -> FALSE
      [] v.kind = "bool" -> v.str = <<"True">>
      [] OTHER           -> v.str # <<>>

\* Faulty variant of AdoptScriptName: a non-empty script_name is replaced too
AlwaysAdoptScriptName(script_name, public_url) ==
    rstrip(urlparse(public_url).path, "/")

\* lines 146-147
AdoptScriptName(script_name, public_url) ==
    IF script_name = <<>> THEN rstrip(urlparse(public_url).path, "/") ELSE script_name

\* Faulty variant of Mismatch: every request is taken for a mismatch
AlwaysMismatch(public_url, application_url) == TRUE

\* line 154
Mismatch(public_url, application_url) == public_url # application_url

\* line 155
ForceWsgiEnviron(s) == Truthy(Get(s, FORCE_WSGI))

\* Faulty variant of MismatchMsg: logger.warning instead of logger.error
MismatchWarning(public_url, application_url) ==
    [level |-> "warning", public_url |-> public_url, application_url |-> application_url]

\* lines 156-164: logger.error(msg), with the parts of the message that vary
MismatchMsg(public_url, application_url) ==
    [level |-> "error", public_url |-> public_url, application_url |-> application_url]

\* The view a path is routed to: the "it works!" route at "/", or one of the
\* included packages under its route prefix
IsPrefix(p, s) == Len(p) <= Len(s) /\ UpTo(s, Len(p)) = p

\* Faulty variant of RouteOf: the "it works!" route is not registered
RouteWithoutItWorks(path_info) ==
    IF IsPrefix(<<"/", "storage", "/">>, path_info) THEN "syncstorage"
    ELSE IF IsPrefix(<<"/", "token", "/">>, path_info) THEN "tokenserver"
    ELSE "notfound"

RouteOf(path_info) ==
    IF path_info = <<"/">> THEN "itworks"
    ELSE IF IsPrefix(<<"/", "storage", "/">>, path_info) THEN "syncstorage"
    ELSE IF IsPrefix(<<"/", "token", "/">>, path_info) THEN "tokenserver"
    ELSE "notfound"

\* Faulty variant of Clobber: script_name is not overwritten
ClobberHostOnly(req, p_public_url) ==
    [req EXCEPT !.scheme = p_public_url.scheme, !.host = p_public_url.netloc]

\* lines 166-168
Clobber(req, p_public_url) ==
    [req EXCEPT
        !.scheme = p_public_url.scheme,
        !.host = p_public_url.netloc,
        !.script_name = rstrip(p_public_url.path, "/")]

\* line 121
ItWorks == <<"it works!">>

---------------------------------------------------------------------------
(* Inputs *)

Url(scheme, rest) == <<scheme, ":", "/", "/">> \o rest

PublicUrlInputs ==
    {Url("http", <<"a">>),
     Url("http", <<"a", "/">>),
     Url("https", <<"a", "/", "p", "/", "/">>),
     Url("http", <<"a", ":", "80">>),
     Url("http", <<"a", "/", "p", "?", "q">>),
     <<"a", "/", "p">>}

BoolKeys ==
    {ALLOW_NEW_USERS, TS_ALLOW_NEW, FORCE_WSGI, TS_GEVENT, ST_CREATE_TABLES, ST_BATCH}

\* The value a deployment supplies for key k
UserValue(k, b) == IF k \in BoolKeys THEN Bool(b) ELSE Str(<<"user:">> \o k)

\* The subsets of S with at most n elements
RECURSIVE AtMost(_, _)
AtMost(S, n) ==
    IF n = 0 THEN {{}}
    ELSE LET P == AtMost(S, n - 1) IN P \cup {p \cup {x} : p \in P, x \in S}

\* Settings with the keys of `supplied` set, and public_url as given
SettingsOf(public_url, supplied, b) ==
    [k \in Keys |->
        IF k = PUBLIC_URL THEN public_url
        ELSE IF k \in supplied THEN UserValue(k, b)
        ELSE None]

PublicUrlChoices == {Str(u) : u \in PublicUrlInputs} \cup {None}

\* The public URLs the defaulter is tried on: without and with trailing
\* slashes, with a path, with a query
DefaulterUrlChoices ==
    {Str(Url("http", <<"a">>)),
     Str(Url("https", <<"a", "/", "p", "/", "/">>)),
     Str(Url("http", <<"a", "/", "p", "?", "q">>)),
     None}

\* What a deployment may hand to the defaulter
DefaulterInputs ==
    {SettingsOf(pu, sub, b) :
        pu \in DefaulterUrlChoices, sub \in AtMost(Keys \ {PUBLIC_URL}, MaxSupplied),
        b \in BOOLEAN}

\* What a deployment may hand to main: the secret and the metrics key are
\* configured, the override flag is unset, false or true
ServerInputs ==
    {[SettingsOf(pu, {SECRET, FXA_METRICS_KEY}, TRUE) EXCEPT ![FORCE_WSGI] = f] :
        pu \in PublicUrlChoices, f \in {None, Bool(FALSE), Bool(TRUE)}}

---------------------------------------------------------------------------
(* Initial states *)

InitWith(s) ==
    /\ settings0 = s
    /\ settings = s
    /\ prev = s
    /\ runs = 0
    /\ umask = "0022"
    /\ root_handlers = FALSE
    /\ app = "init"
    /\ routes = {}
    /\ requests = [r \in Requests |-> Idle]
    /\ log = {}

Init == \E s \in ServerInputs : InitWith(s)

InitDefaulter == \E s \in DefaulterInputs : InitWith(s)

---------------------------------------------------------------------------
(* Startup *)

\* includeme, lines 34-124, called on the configurator's settings.  The umask
\* is set before the settings are looked at; the PyOpenSSL injection (lines
\* 42-43) touches neither the settings nor the configurator.
IncludemeCall ==
    /\ umask' = "0077"
    /\ IF MissingPublicUrl(settings)
       THEN /\ app' = "failed"
            /\ UNCHANGED <<settings, prev, runs, root_handlers, routes>>
       ELSE /\ \E rnd32 \in URandom32, rnd16 \in URandom16 :
                 settings' = Includeme(settings, rnd32, rnd16)
            /\ prev' = settings
            /\ runs' = runs + 1
            /\ root_handlers' = BasicConfig(settings, root_handlers)
            /\ routes' = routes \cup Registrations
            /\ app' = "configured"
    /\ UNCHANGED <<settings0, requests, log>>

\* get_configurator, lines 171-179: config.include(includeme); an exception
\* of includeme propagates through the finally clause
GetConfigurator ==
    /\ app = "init"
    /\ IncludemeCall

\* main, lines 184-185: config.make_wsgi_app()
MakeWsgiApp ==
    /\ app = "configured"
    /\ app' = "serving"
    /\ UNCHANGED <<settings, settings0, prev, runs, umask, root_handlers, routes,
                   requests, log>>

\* includeme applied again to the settings it has already defaulted
Reinclude ==
    /\ app = "configured"
    /\ runs < MaxRuns
    /\ IncludemeCall

---------------------------------------------------------------------------
(* Request handling *)

UpdateRequest(r, new) ==
    /\ requests' = [requests EXCEPT ![r] = new]
    /\ UNCHANGED <<settings, settings0, prev, runs, umask, root_handlers, app, routes>>

\* The router of the served application takes a request and notifies the
\* NewRequest subscribers
Arrive(r) ==
    /\ app = "serving"
    /\ requests[r].pc = "idle"
    /\ \E scheme \in Schemes, host \in Hosts, script_name \in ScriptNames,
          path_info \in PathInfos :
          UpdateRequest(r, NewRequestOf(scheme, host, script_name, path_info))
    /\ UNCHANGED log

\* lines 140-147
Adopt(r) ==
    LET req        == requests[r]
        public_url == Get(settings, PUBLIC_URL).str
    IN  /\ req.pc = "adopt"
        /\ UpdateRequest(r, [req EXCEPT
                !.script_name = AdoptScriptName(req.script_name, public_url),
                !.pc = "check"])
        /\ UNCHANGED log

\* Faulty variant of Check: settings.pop instead of settings.get, which takes
\* the flag out of the shared settings as it is read
CheckPop(r) ==
    LET req             == requests[r]
        public_url      == Get(settings, PUBLIC_URL).str
        application_url == ApplicationUrl(req.scheme, req.host, req.script_name)
    IN  /\ req.pc = "check"
        /\ requests' = [requests EXCEPT ![r] = [req EXCEPT !.pc =
                IF Mismatch(public_url, application_url)
                THEN IF ~ForceWsgiEnviron(settings) THEN "log" ELSE "override"
                ELSE "route"]]
        /\ settings' = IF Mismatch(public_url, application_url)
                       THEN Set(settings, FORCE_WSGI, None) ELSE settings
        /\ UNCHANGED <<settings0, prev, runs, umask, root_handlers, app, routes, log>>

\* lines 153-155
Check(r) ==
    LET req             == requests[r]
        public_url      == Get(settings, PUBLIC_URL).str
        application_url == ApplicationUrl(req.scheme, req.host, req.script_name)
    IN  /\ req.pc = "check"
        /\ UpdateRequest(r, [req EXCEPT !.pc =
                IF Mismatch(public_url, application_url)
                THEN IF ~ForceWsgiEnviron(settings) THEN "log" ELSE "override"
                ELSE "route"])
        /\ UNCHANGED log

\* lines 156-164
LogError(r) ==
    LET req             == requests[r]
        public_url      == Get(settings, PUBLIC_URL).str
        application_url == ApplicationUrl(req.scheme, req.host, req.script_name)
    IN  /\ req.pc = "log"
        /\ log' = log \cup {MismatchMsg(public_url, application_url)}
        /\ UpdateRequest(r, [req EXCEPT !.pc = "raise"])

\* line 165: the _JSONError is the response
Raise(r) ==
    LET req == requests[r]
    IN  /\ req.pc = "raise"
        /\ UpdateRequest(r, [req EXCEPT
                !.status = 500, !.body = <<"_JSONError">>, !.pc = "done"])
        /\ UNCHANGED log

\* lines 166-168
Override(r) ==
    LET req          == requests[r]
        p_public_url == urlparse(Get(settings, PUBLIC_URL).str)
    IN  /\ req.pc = "override"
        /\ UpdateRequest(r, [Clobber(req, p_public_url) EXCEPT !.pc = "route"])
        /\ UNCHANGED log

\* The subscriber returned: the router matches the routes registered at
\* lines 116-124 and calls the view
Route(r) ==
    LET req  == requests[r]
        view == RouteOf(req.path_info)
    IN  /\ req.pc = "route"
        /\ UpdateRequest(r, [req EXCEPT
                !.status = IF view = "notfound" THEN 404 ELSE 200,
                !.body = IF view = "itworks" THEN ItWorks ELSE <<view>>,
                !.pc = "done"])
        /\ UNCHANGED log

---------------------------------------------------------------------------
(* Specifications *)

\* The application is built by main and then serves requests
Next ==
    \/ GetConfigurator
    \/ MakeWsgiApp
    \/ \E r \in Requests : Arrive(r)
    \/ \E r \in Requests : Adopt(r)
    \/ \E r \in Requests : Check(r)
    \/ \E r \in Requests : LogError(r)
    \/ \E r \in Requests : Raise(r)
    \/ \E r \in Requests : Override(r)
    \/ \E r \in Requests : Route(r)

Spec == Init /\ [][Next]_vars

\* The defaulter alone: applied to the caller's settings, then applied again
NextDefaulter ==
    \/ GetConfigurator
    \/ Reinclude

SpecDefaulter == InitDefaulter /\ [][NextDefaulter]_vars


---------------------------------------------------------------------------
(* Properties of the defaulter (checked under SpecDefaulter)               *)

\* The keys the defaulter writes a fixed or generated value to
DefaultedKeys ==
    {TS_BACKEND, TS_SQLURI, TS_NODE_URL, ENDPOINTS, TS_GEVENT, TS_APPLICATIONS,
     TS_SEC_BACKEND, TS_SEC_SECRETS, HAWK_SEC_BACKEND,
     ST_BACKEND, ST_SQLURI, ST_CREATE_TABLES, ST_BATCH,
     BID_BACKEND, BID_AUDIENCES, FXA_METRICS_KEY}

\* The key whose absence the defaulter tests before it writes k
GoverningKey(k) ==
    CASE k \in {TS_SQLURI, TS_NODE_URL, ENDPOINTS}   -> TS_BACKEND
      [] k = TS_SEC_SECRETS                           -> TS_SEC_BACKEND
      [] k \in {HAWK_SEC_SECRETS, HAWK_SEC_FILENAME}  -> HAWK_SEC_BACKEND
      [] k \in {ST_SQLURI, ST_CREATE_TABLES}          -> ST_BACKEND
      [] k = BID_AUDIENCES                            -> BID_BACKEND
      [] OTHER                                        -> k

C2_Idempotent == runs >= 2 => settings = prev

\* Two runs, the first of which generated the secret and the metrics key
C2_Witness ==
    /\ runs = 2
    /\ ~Has(settings0, SECRET) /\ ~Has(settings0, TS_SEC_BACKEND)
    /\ ~Has(settings0, FXA_METRICS_KEY)
    /\ \E rnd \in URandom16 : settings[FXA_METRICS_KEY] = Str(rnd)

\* C10: on settings without hawkauth.secrets.backend, every tokenserver.secrets.X
\* of the result has hawkauth.secrets.X with the same value; when
\* tokenserver.secrets.backend was absent too, both secrets lists hold the one
\* secret: syncserver.secret if supplied, else one generated secret.
C10_SecretsMirrored ==
    (runs >= 1 /\ ~Has(settings0, HAWK_SEC_BACKEND)) =>
        /\ \A k \in Keys :
              IsTokenserverSecret(k) /\ Has(settings, k)
                  => settings[HawkKey(k)] = settings[k]
        /\ ~Has(settings0, TS_SEC_BACKEND) =>
              /\ settings[HAWK_SEC_SECRETS] = settings[TS_SEC_SECRETS]
              /\ IF Has(settings0, SECRET)
                 THEN settings[TS_SEC_SECRETS] = List(settings0[SECRET])
                 ELSE \E rnd \in URandom32 : settings[TS_SEC_SECRETS] = List(Str(rnd))

\* A run that generated the secret and replaced a supplied hawkauth secrets list
C10_Witness ==
    /\ runs = 1
    /\ ~Has(settings0, HAWK_SEC_BACKEND) /\ ~Has(settings0, TS_SEC_BACKEND)
    /\ ~Has(settings0, SECRET)
    /\ Has(settings0, HAWK_SEC_SECRETS)

---------------------------------------------------------------------------
(* Properties of startup and of the reconciler (checked under Spec)        *)

PublicUrl == Get(settings, PUBLIC_URL).str
Force     == ForceWsgiEnviron(settings)

\* the request went through the subscriber (it returned or raised)
Reconciled(r) == requests[r].pc \in {"route", "done"}
Rejected(r)   == requests[r].pc = "done" /\ requests[r].status = 500

EnvScheme(r) == requests[r].environ[1]
EnvHost(r)   == requests[r].environ[2]
EnvScript(r) == requests[r].environ[3]

Fields(r) == <<requests[r].scheme, requests[r].host, requests[r].script_name>>

\* the script_name the request has once an empty one took the public URL's path
AdoptedScript(r) ==
    IF EnvScript(r) = <<>> THEN rstrip(urlparse(PublicUrl).path, "/") ELSE EnvScript(r)

\* the application URL of the request as received, and once an empty
\* script_name took the public URL's path
ReceivedUrl(r) == ApplicationUrl(EnvScheme(r), EnvHost(r), EnvScript(r))
AdoptedUrl(r)  == ApplicationUrl(EnvScheme(r), EnvHost(r), AdoptedScript(r))

\* the host of the request as its URL shows it: without the port when that
\* is the default port of the request's scheme
ShownHost(r) == From(HostUrl(EnvScheme(r), EnvHost(r)), Len(EnvScheme(r)) + 3)

\* C3: without syncserver.public_url, initialization fails: the settings are
\* unchanged, nothing is registered, no application is made, no request served.
C3_MissingPublicUrlAborts ==
    ~Has(settings0, PUBLIC_URL) =>
        /\ app \in {"init", "failed"}
        /\ settings = settings0
        /\ routes = {}
        /\ \A r \in Requests : requests[r] = Idle

\* Initialization was attempted without public_url and failed
C3_Witness == app = "failed" /\ ~Has(settings0, PUBLIC_URL) /\ umask = "0077"

\* C4 as stated: a request whose host differs from the public URL's host, with
\* the override off, is rejected with 500 and its scheme, host and script_name
\* are as they were received.  (The host is taken as the request's URL shows
\* it, the reading under which the rejection itself holds.)
C4_Original ==
    \A r \in Requests :
        (Reconciled(r) /\ ~Force /\ ShownHost(r) # urlparse(PublicUrl).netloc) =>
            /\ Rejected(r)
            /\ Fields(r) = requests[r].environ

\* C4 amended: a request whose host (without its scheme's default port)
\* differs from the public URL's host, with the override off, is rejected with
\* 500; its scheme and host are as received, and so is its script_name unless
\* that was empty: then it holds the public URL's path without trailing slashes.
C4_RejectedHostMismatch ==
    \A r \in Requests :
        (Reconciled(r) /\ ~Force /\ ShownHost(r) # urlparse(PublicUrl).netloc) =>
            /\ Rejected(r)
            /\ Fields(r) = <<EnvScheme(r), EnvHost(r), AdoptedScript(r)>>

\* A rejected request of another host that came without a script_name and
\* took a non-empty one from the public URL
C4_Witness ==
    \E r \in Requests :
        /\ Rejected(r) /\ ~Force
        /\ ShownHost(r) # urlparse(PublicUrl).netloc
        /\ EnvScript(r) = <<>>
        /\ requests[r].script_name # <<>>

\* a public URL made of an http or https scheme, a host name, possibly a port
\* that is not the scheme's default, and possibly a path; nothing else
PlainUrl(u) ==
    /\ Len(u) >= 5
    /\ u[1] \in {"http", "https"}
    /\ SubSeq(u, 2, 4) = <<":", "/", "/">>
    /\ u[5] \notin Delimiters
    /\ \A i \in 1..Len(u) : u[i] # "?"
    /\ (Len(u) >= 6 /\ u[6] = ":") =>
          /\ Len(u) >= 7
          /\ u[7] \in DigitAtoms
          /\ ~(u[1] = "http" /\ u[7] = "80")
          /\ ~(u[1] = "https" /\ u[7] = "443")
    /\ \A i \in 6..Len(u) : u[i] = ":" => i = 6

\* C5 as stated: with the override on, a request whose application URL differs
\* from the public URL is let through with its scheme, host and script_name
\* overwritten from the public URL, so that its application URL then equals
\* the public URL; and the override acts only when the flag is true.
C5_Original ==
    \A r \in Requests :
        /\ (Reconciled(r) /\ Force /\ Mismatch(PublicUrl, AdoptedUrl(r))) =>
              /\ ~Rejected(r)
              /\ Fields(r) = <<urlparse(PublicUrl).scheme, urlparse(PublicUrl).netloc,
                               rstrip(urlparse(PublicUrl).path, "/")>>
              /\ ApplicationUrl(requests[r].scheme, requests[r].host,
                                requests[r].script_name) = PublicUrl
        /\ requests[r].pc = "override" => Force

\* C5 amended: with the override on, a request whose application URL (taken
\* after an empty script_name took the public URL's path) differs from the
\* public URL is let through with its scheme, host and script_name overwritten
\* from the public URL; its application URL then equals the public URL when
\* that is a plain URL (scheme http or https, host, optional non-default
\* port, optional path); the override acts only when the flag is true.
C5_Override ==
    \A r \in Requests :
        /\ (Reconciled(r) /\ Force /\ Mismatch(PublicUrl, AdoptedUrl(r))) =>
              /\ ~Rejected(r)
              /\ Fields(r) = <<urlparse(PublicUrl).scheme, urlparse(PublicUrl).netloc,
                               rstrip(urlparse(PublicUrl).path, "/")>>
              /\ PlainUrl(PublicUrl) =>
                    ApplicationUrl(requests[r].scheme, requests[r].host,
                                   requests[r].script_name) = PublicUrl
        /\ requests[r].pc = "override" => Force

\* A request of another host and prefix, overridden to a plain public URL
\* with a path and answered
C5_Witness ==
    \E r \in Requests :
        /\ requests[r].pc = "done" /\ requests[r].status = 200 /\ Force
        /\ PlainUrl(PublicUrl) /\ urlparse(PublicUrl).path # <<>>
        /\ EnvHost(r) # requests[r].host
        /\ EnvScript(r) # requests[r].script_name
        /\ EnvScript(r) # <<>>

\* C6: a request whose application URL, as received, equals the public URL is
\* let through with scheme, host and script_name unchanged, whatever the flag.
C6_MatchUnmodified ==
    \A r \in Requests :
        (Reconciled(r) /\ ReceivedUrl(r) = PublicUrl) =>
            /\ ~Rejected(r)
            /\ Fields(r) = requests[r].environ

\* A matching request answered while the override is on
C6_Witness ==
    \E r \in Requests :
        /\ requests[r].pc = "done" /\ requests[r].status = 200
        /\ ReceivedUrl(r) = PublicUrl
        /\ Force

\* C7: with the override off, a request gets past the reconciler exactly when
\* its application URL, after an empty script_name took the public URL's path,
\* equals the public URL; any other is rejected with 500 after the mismatch was
\* logged at error level; a non-empty script_name is never replaced.
C7_NoSilentMismatch ==
    ~Force =>
        \A r \in Requests :
            /\ Reconciled(r) => (Rejected(r) <=> AdoptedUrl(r) # PublicUrl)
            /\ (requests[r].pc = "raise" \/ Rejected(r)) =>
                  [level |-> "error", public_url |-> PublicUrl,
                   application_url |-> AdoptedUrl(r)] \in log
            /\ requests[r].pc \notin {"idle", "adopt"} =>
                  Fields(r) = <<EnvScheme(r), EnvHost(r), AdoptedScript(r)>>

\* With the override off: one request of the right scheme and host but
\* another non-empty prefix is rejected, another took the prefix and passed
C7_Witness ==
    /\ ~Force
    /\ \E r \in Requests :
          /\ Rejected(r)
          /\ ShownHost(r) = urlparse(PublicUrl).netloc
          /\ EnvScheme(r) = urlparse(PublicUrl).scheme
          /\ EnvScript(r) # <<>>
          /\ requests[r].script_name = EnvScript(r)
    /\ \E r \in Requests :
          /\ requests[r].pc = "done" /\ requests[r].status = 200
          /\ EnvScript(r) = <<>> /\ requests[r].script_name # <<>>

\* C8 as stated: every request to "/" is answered with "it works!".
C8_Original ==
    \A r \in Requests :
        (requests[r].pc = "done" /\ requests[r].path_info = <<"/">>) =>
            requests[r].status = 200 /\ requests[r].body = ItWorks

\* C8 amended: a request to "/" is answered with "it works!" exactly when the
\* reconciler, which runs first, lets it through; one the reconciler rejects
\* is answered with the 500 error instead.
C8_ItWorksUnlessRejected ==
    \A r \in Requests :
        (requests[r].pc = "done" /\ requests[r].path_info = <<"/">>) =>
            IF ~Force /\ AdoptedUrl(r) # PublicUrl
            THEN requests[r].status = 500 /\ requests[r].body # ItWorks
            ELSE requests[r].status = 200 /\ requests[r].body = ItWorks

\* Two requests to "/": one answered "it works!", one rejected
C8_Witness ==
    /\ \E r \in Requests :
          /\ requests[r].pc = "done" /\ requests[r].path_info = <<"/">>
          /\ requests[r].body = ItWorks
    /\ \E r \in Requests :
          /\ Rejected(r) /\ requests[r].path_info = <<"/">>

\* what a request is answered with and left as can be told from what it
\* arrived with: two requests that arrived alike are alike at the same position
SameForSame ==
    \A r1, r2 \in Requests :
        (/\ requests[r1].environ = requests[r2].environ
         /\ requests[r1].path_info = requests[r2].path_info
         /\ requests[r1].pc = requests[r2].pc) => requests[r1] = requests[r2]

\* C9: once the defaulter has run at startup no step changes the settings, and
\* under every interleaving a request's outcome and final scheme, host and
\* script_name depend only on what it arrived with and on the settings.
C9_SettingsReadOnly ==
    /\ [][app = "serving" => settings' = settings]_vars
    /\ []SameForSame

\* Two requests that arrived alike are overridden at the same time
C9_Witness ==
    /\ requests["r1"].pc = "override" /\ requests["r2"].pc = "override"
    /\ requests["r1"].environ = requests["r2"].environ

===========================================================================
